---- MODULE Spec2Model ----
(***************************************************************************)
(* A model of "Python Logic/main.py": the Flask back end of the chat page. *)
(*                                                                         *)
(* Three groups of state are modelled, each with its own specification:    *)
(*   SpecSan    the pure function sanitize_chat_id on bounded strings;     *)
(*   SpecStore  the chat files (save_chat, load_chat, list_chats) handled  *)
(*              one request at a time, with the directory also editable    *)
(*              from outside the program;                                  *)
(*   Spec       the status record, its lock and current_model under        *)
(*              concurrently handled requests (FairSpec adds fairness).    *)
(*                                                                         *)
(* A Python str is a sequence of one-character strings; a character that   *)
(* is not ASCII is written by its name ("e_acute" is U+00E9).              *)
(***************************************************************************)
EXTENDS Integers, Sequences, FiniteSets, TLC

VARIABLES
  \* ---- sanitize_chat_id applied to an input ----
  sIn,            \* the input string
  sOut,           \* sanitize_chat_id(sIn), or NotYet
  sOut2,          \* sanitize_chat_id(sOut), or NotYet
  \* ---- the chats directory ----
  files,          \* file name (without ".json") -> Absent, a text that is no
                  \* JSON, a JSON value that is no object, or a payload
  now,            \* the clock read by datetime.utcnow(), in half seconds
  sresp,          \* the response of the last store request
  sreq,           \* the last store request
  saved,          \* per file: the model and messages as supplied to the most
                  \* recent successful save_chat, Unknown after an outside edit
  \* ---- status, lock and current model under concurrent requests ----
  pc,             \* per thread: position in its handler
  ret,            \* per thread: where update_status returns to
  arg,            \* per thread: the arguments of its update_status call
  req,            \* per thread: the request being handled
  found,          \* per thread: what ensure_model_pulled learnt from list_models
  pulls,          \* per thread: "ollama pull" runs of the current request
  exc,            \* per thread: the message of the exception being handled
  resp,           \* per thread: the response of its last request
  lock,           \* status_lock: the thread holding it, or Free
  model_status,   \* the global dict
  current_model,  \* the global str
  committed,      \* the arguments of the last completed update_status call
  nreq            \* requests started so far

sanVars   == <<sIn, sOut, sOut2>>
storeVars == <<files, now, sresp, sreq, saved>>
statVars  == <<pc, ret, arg, req, found, pulls, exc, resp, lock, model_status,
               current_model, committed, nreq>>
vars      == <<sanVars, storeVars, statVars>>

(***************************************************************************)
(* Bounds of the model.                                                    *)
(***************************************************************************)
MaxLen == 2        \* longest input string of SpecSan
MaxTick == 1       \* the clock of SpecStore runs over 0..MaxTick
MaxReq == 2        \* requests started in one behaviour of Spec

(***************************************************************************)
(* Strings.                                                                *)
(***************************************************************************)
AsciiLetters ==
  {"a","b","c","d","e","f","g","h","i","j","k","l","m","n","o","p","q","r",
   "s","t","u","v","w","x","y","z","A","B","C","D","E","F","G","H","I","J",
   "K","L","M","N","O","P","Q","R","S","T","U","V","W","X","Y","Z"}
AsciiDigits == {"0","1","2","3","4","5","6","7","8","9"}
\* Characters beyond ASCII for which str.isalnum() is True: U+00E9 (a letter)
\* and U+0665 (ARABIC-INDIC DIGIT FIVE).
NonAsciiAlnum == {"e_acute", "arabic_five"}

\* str.isalnum() of one character
IsAlnum(c) == c \in AsciiLetters \cup AsciiDigits \cup NonAsciiAlnum

\* The filter of sanitize_chat_id: char.isalnum() or char in "-_"
KeepChar(c) == IsAlnum(c) \/ c \in {"-", "_"}

RECURSIVE Filter(_)
Filter(s) ==
  IF s = <<>> THEN <<>>
  ELSE (IF KeepChar(Head(s)) THEN <<Head(s)>> ELSE <<>>) \o Filter(Tail(s))

\* sanitize_chat_id(chat_id)
sanitize_chat_id(chat_id) == Filter(chat_id)

IsSpace(c) == c = " "

RECURSIVE LStrip(_)
LStrip(s) == IF s # <<>> /\ IsSpace(Head(s)) THEN LStrip(Tail(s)) ELSE s

RECURSIVE RStrip(_)
RStrip(s) ==
  IF s # <<>> /\ IsSpace(s[Len(s)]) THEN RStrip(SubSeq(s, 1, Len(s) - 1)) ELSE s

\* str.strip()
Strip(s) == RStrip(LStrip(s))

RECURSIVE LStripQ(_)
LStripQ(s) == IF s # <<>> /\ Head(s) = "\"" THEN LStripQ(Tail(s)) ELSE s

RECURSIVE RStripQ(_)
RStripQ(s) ==
  IF s # <<>> /\ s[Len(s)] = "\"" THEN RStripQ(SubSeq(s, 1, Len(s) - 1)) ELSE s

\* str.strip('"')
StripQuote(s) == RStripQ(LStripQ(s))

\* The value of a result not computed yet (no string: "#" is one element).
NotYet == <<"#unset">>

(***************************************************************************)
(* SpecSan: sanitize_chat_id on every string of at most MaxLen characters  *)
(* over SanAlphabet.                                                       *)
(***************************************************************************)
SanAlphabet == {"a", "Z", "7", "-", "_", "!", " ", "e_acute", "arabic_five", "euro"}

SanInputs == UNION {[1..n -> SanAlphabet] : n \in 0..MaxLen}

Free == "free"

\* The other groups of state at rest.
StoreAtRest ==
  /\ files = <<>> /\ now = 0 /\ sresp = <<>> /\ sreq = <<>> /\ saved = <<>>
StatAtRest ==
  /\ pc = <<>> /\ ret = <<>> /\ arg = <<>> /\ req = <<>> /\ found = <<>>
  /\ pulls = <<>> /\ exc = <<>> /\ resp = <<>> /\ lock = Free
  /\ model_status = <<>> /\ current_model = <<>> /\ committed = <<>> /\ nreq = 0
SanAtRest == sIn = <<>> /\ sOut = NotYet /\ sOut2 = NotYet

InitSan ==
  /\ sIn \in SanInputs
  /\ sOut = NotYet
  /\ sOut2 = NotYet
  /\ StoreAtRest
  /\ StatAtRest

\* sanitize_chat_id(sIn)
SanOnce ==
  /\ sOut = NotYet
  /\ sOut' = sanitize_chat_id(sIn)
  /\ UNCHANGED <<sIn, sOut2, storeVars, statVars>>

\* sanitize_chat_id(sanitize_chat_id(sIn))
SanTwice ==
  /\ sOut # NotYet
  /\ sOut2 = NotYet
  /\ sOut2' = sanitize_chat_id(sOut)
  /\ UNCHANGED <<sIn, sOut, storeVars, statVars>>

NextSan == SanOnce \/ SanTwice

SpecSan == InitSan /\ [][NextSan]_vars

\* C6: sanitize_chat_id applied twice gives what it gives applied once, and
\* every character of its result is one of A-Z, a-z, 0-9, "_" and "-".
C6_SanitizeIdempotentAscii ==
  /\ sOut # NotYet =>
       \A i \in DOMAIN sOut : sOut[i] \in AsciiLetters \cup AsciiDigits \cup {"-", "_"}
  /\ sOut2 # NotYet => sOut2 = sOut

(***************************************************************************)
(* SpecStore: the chats directory.  Requests are handled one at a time;    *)
(* the files can also be written from outside the program.                 *)
(***************************************************************************)
TitleMax == 80

\* The characters json.dumps(..., ensure_ascii=True) writes for one character
\* of a string.
JsonEscapeChar(c) ==
  CASE c = "e_acute" -> <<"\\", "u", "0", "0", "e", "9">>
    [] c = "\"" -> <<"\\", "\"">>
    [] c = "\\" -> <<"\\", "\\">>
    [] OTHER -> <<c>>

RECURSIVE JsonEscape(_)
JsonEscape(s) ==
  IF s = <<>> THEN <<>> ELSE JsonEscapeChar(Head(s)) \o JsonEscape(Tail(s))

\* json.loads of the inside of a string literal
RECURSIVE JsonUnescape(_)
JsonUnescape(s) ==
  IF s = <<>> THEN <<>>
  ELSE IF Head(s) # "\\" THEN <<Head(s)>> \o JsonUnescape(Tail(s))
  ELSE IF s[2] = "u"
       THEN (IF SubSeq(s, 3, 6) = <<"0", "0", "e", "9">>
             THEN <<"e_acute">> ELSE <<"?">>) \o JsonUnescape(SubSeq(s, 7, Len(s)))
       ELSE <<s[2]>> \o JsonUnescape(SubSeq(s, 3, Len(s)))

\* A message of a transcript as the request gives it; dict is FALSE for an
\* item that is no JSON object.
Msg(role, content) == [dict |-> TRUE, role |-> role, content |-> content]
\* The "messages" field: a list of items, or a JSON value that is no list.
MsgList(items) == [list |-> TRUE, items |-> items]
NotAList == [list |-> FALSE, items |-> <<>>]

MapMessages(msgs, F(_)) ==
  [list |-> msgs.list,
   items |-> [i \in 1..Len(msgs.items) |->
                [msgs.items[i] EXCEPT !.content = F(@)]]]

\* What a file of the directory holds: kind is "absent" (no such file),
\* "notjson" (a text json.loads rejects), "notobject" (a JSON array), or
\* "payload" (a JSON object with the five fields, each string as written in
\* the file).
File(kind, id, title, model, messages, updatedAt) ==
  [kind |-> kind, id |-> id, title |-> title, model |-> model,
   messages |-> messages, updatedAt |-> updatedAt]
Absent == File("absent", <<>>, <<>>, <<>>, MsgList(<<>>), <<>>)
NotJson == File("notjson", <<>>, <<>>, <<>>, MsgList(<<>>), <<>>)
NotObject == File("notobject", <<>>, <<>>, <<>>, MsgList(<<>>), <<>>)

\* json.dumps(payload, indent=2, ensure_ascii=True) of save_chat_payload
JsonDumps(payload) ==
  File("payload", JsonEscape(payload.id), JsonEscape(payload.title),
       JsonEscape(payload.model), MapMessages(payload.messages, JsonEscape),
       JsonEscape(payload.updatedAt))

\* json.loads of a file that holds a JSON object
JsonLoads(file) ==
  File("payload", JsonUnescape(file.id), JsonUnescape(file.title),
       JsonUnescape(file.model), MapMessages(file.messages, JsonUnescape),
       JsonUnescape(file.updatedAt))

\* extract_first_user_message(messages)
RECURSIVE FirstUser(_)
FirstUser(items) ==
  IF items = <<>> THEN <<>>
  ELSE IF Head(items).dict /\ Head(items).role = "user"
       THEN Strip(Head(items).content)
       ELSE FirstUser(Tail(items))
extract_first_user_message(messages) == FirstUser(messages.items)

\* title[:80]
Truncate(s, n) == SubSeq(s, 1, IF Len(s) < n THEN Len(s) ELSE n)

\* What the chat call of generate_chat_title can do: raise, answer without
\* a message, or answer with a text.
TitleReplies ==
  { [kind |-> "raise", content |-> <<>>],
    [kind |-> "nomessage", content |-> <<>>],
    [kind |-> "text", content |-> <<" ", "\"", "G", "\"">>],
    [kind |-> "text", content |-> <<"\"", " ", "\"">>] }

\* generate_chat_title(first_message, model) when the chat call answers;
\* an exception of the call is left to the caller.
generate_chat_title(first_message, model, reply) ==
  IF first_message = <<>> \/ model = <<>> THEN <<>>
  ELSE IF reply.kind = "nomessage" THEN <<>>
  ELSE Truncate(StripQuote(Strip(reply.content)), TitleMax)

\* datetime.utcnow().isoformat() followed by "Z", for the clock at k half
\* seconds past 2024-01-01T00:00:00: isoformat leaves the fraction out when
\* the microseconds are 0.
DigitChars == <<"0", "1", "2", "3", "4", "5", "6", "7", "8", "9">>
Digit(d) == DigitChars[d + 1]
TwoDigits(n) == <<Digit(n \div 10), Digit(n % 10)>>
SixDigits(n) ==
  <<Digit(n \div 100000), Digit((n \div 10000) % 10), Digit((n \div 1000) % 10),
    Digit((n \div 100) % 10), Digit((n \div 10) % 10), Digit(n % 10)>>
IsoFormat(k) ==
  LET second == (k \div 2) % 60
      minute == (k \div 120) % 60
      microsecond == (k % 2) * 500000
  IN  <<"2", "0", "2", "4", "-", "0", "1", "-", "0", "1", "T", "0", "0", ":">>
        \o TwoDigits(minute) \o <<":">> \o TwoDigits(second)
        \o (IF microsecond = 0 THEN <<>> ELSE <<".">> \o SixDigits(microsecond))
UtcNowZ(k) == IsoFormat(k) \o <<"Z">>

\* The code point of a character of a timestamp.
Ord(c) ==
  CASE c = "-" -> 45
    [] c = "." -> 46
    [] c \in AsciiDigits -> 48 + (CHOOSE d \in 0..9 : Digit(d) = c)
    [] c = ":" -> 58
    [] c = "T" -> 84
    [] c = "Z" -> 90

\* a < b for Python strings: by code point, a proper prefix first
RECURSIVE StrLess(_, _)
StrLess(a, b) ==
  IF b = <<>> THEN FALSE
  ELSE IF a = <<>> THEN TRUE
  ELSE IF Head(a) = Head(b) THEN StrLess(Tail(a), Tail(b))
  ELSE Ord(Head(a)) < Ord(Head(b))

\* list.sort(key=updatedAt, reverse=True): descending and stable, an item is
\* put behind the items that are not below it.
RECURSIVE InsertDesc(_, _)
InsertDesc(sorted, x) ==
  IF sorted = <<>> THEN <<x>>
  ELSE IF StrLess(Head(sorted).updatedAt, x.updatedAt) THEN <<x>> \o sorted
  ELSE <<Head(sorted)>> \o InsertDesc(Tail(sorted), x)

RECURSIVE SortDesc(_)
SortDesc(items) ==
  IF items = <<>> THEN <<>>
  ELSE InsertDesc(SortDesc(SubSeq(items, 1, Len(items) - 1)), items[Len(items)])

\* The ids of the requests.
IdInputs == {<<"!">>, <<" ", "a", "!">>, <<"b">>}

\* The bodies of the save_chat requests: with a title, without one (a first
\* user message and a model are there to make one from), with nothing to
\* make a title from, and with messages that are no list.
Conversation ==
  MsgList(<<Msg("assistant", <<"y">>), Msg("user", <<" ", "e_acute", "\"">>)>>)
Body(title, model, messages) == [title |-> title, model |-> model, messages |-> messages]
SaveBodies ==
  { Body(<<"T">>, <<" ", "m">>, Conversation),
    Body(<<" ">>, <<" ", "m">>, Conversation),
    Body(<<" ">>, <<>>, MsgList(<<>>)),
    Body(<<"T">>, <<" ", "m">>, NotAList) }

\* The names (without ".json") the requests can give a file.
FileNames == {sanitize_chat_id(Strip(i)) : i \in IdInputs} \ {<<>>}

\* A response of the store handlers; payload is the transcript of load_chat,
\* chats the list of list_chats.
SResp(code, body, payload, chats) ==
  [code |-> code, body |-> body, payload |-> payload, chats |-> chats]
NoSResp == SResp(0, "none", Absent, <<>>)

\* The last request: its handler and id, and for save_chat the title as
\* supplied, the title of the transcript found under the id (empty when
\* there was none) and what became of the title generation ("no" when
\* generate_chat_title was not called).
SReq(op, id, title, existing, gen) ==
  [op |-> op, id |-> id, title |-> title, existing |-> existing, gen |-> gen]
NoSReq == SReq("none", <<>>, <<>>, <<>>, "no")

\* What is known of the most recent successful save_chat of a file.
Saved(known, model, messages) == [known |-> known, model |-> model, messages |-> messages]
Unknown == Saved(FALSE, <<>>, MsgList(<<>>))

InitStore ==
  /\ files = [n \in FileNames |-> Absent]
  /\ now = 0
  /\ sresp = NoSResp
  /\ sreq = NoSReq
  /\ saved = [n \in FileNames |-> Unknown]
  /\ SanAtRest
  /\ StatAtRest

\* Time passes.
Tick ==
  /\ now < MaxTick
  /\ now' = now + 1
  /\ UNCHANGED <<files, sresp, sreq, saved>>

\* What a user or another program can leave in a file of the directory: a
\* text that is no JSON, a JSON array, or a transcript whose id has no
\* character sanitize_chat_id keeps.
EditedContents(k) ==
  { NotJson, NotObject,
    File("payload", <<"!">>, <<"T">>, <<"m">>, MsgList(<<>>), UtcNowZ(k)) }

ExternalEdit ==
  \E n \in FileNames, c \in EditedContents(now) :
    /\ files' = [files EXCEPT ![n] = c]
    /\ saved' = [saved EXCEPT ![n] = Unknown]
    /\ sreq' = SReq("edit", n, <<>>, <<>>, "no")
    /\ sresp' = NoSResp
    /\ UNCHANGED now

\* load_chat_payload(chat_id) when it returns: None is Absent
load_chat_payload(chat_id) ==
  IF files[chat_id].kind = "absent" THEN Absent
  ELSE IF files[chat_id].kind = "payload" THEN JsonLoads(files[chat_id])
  ELSE files[chat_id]

\* The answer to an exception that leaves a handler.
Unhandled == SResp(500, "unhandled", Absent, <<>>)

\* A save_chat that never takes the title of the stored transcript
RetainedTitleNever(existing, title) == title

\* Lines 187-188: the title of the stored transcript when none is supplied
RetainedTitle(existing, title) ==
  IF existing.kind = "payload" /\ title = <<>> THEN Strip(existing.title) ELSE title

\* A payload with the model of the request as it came
SavePayloadRawModel(chat_id, title, model, body, k) ==
  File("payload", chat_id, title, body.model, body.messages, UtcNowZ(k))

\* Lines 198-204: the payload save_chat writes at clock k for the request
\* body, with the id, title and model it has worked out
SavePayload(chat_id, title, model, body, k) ==
  File("payload", chat_id, title, model, body.messages, UtcNowZ(k))

\* save_chat, lines 173-206
SaveChat ==
  \E id \in IdInputs, body \in SaveBodies :
    LET chat_id == sanitize_chat_id(Strip(id))
        messages == body.messages
        m == body.model
        t == body.title
        model == Strip(m)
        title0 == Strip(t)
    IN  IF chat_id = <<>> \/ ~messages.list
        THEN /\ sresp' = SResp(400, "error", Absent, <<>>)
             /\ sreq' = SReq("save", id, t, <<>>, "no")
             /\ UNCHANGED <<files, now, saved>>
        ELSE
          LET existing == load_chat_payload(chat_id)
              \* json.loads raises, or existing.get on a list does
              raises == \/ existing.kind = "notjson"
                        \/ existing.kind = "notobject" /\ title0 = <<>>
              title1 == RetainedTitle(existing, title0)
              first_message == extract_first_user_message(messages)
              generate == title1 = <<>> /\ first_message # <<>> /\ model # <<>>
              Written(title) == SavePayload(chat_id, title, model, body, now)
          IN  IF raises
              THEN /\ sresp' = Unhandled
                   /\ sreq' = SReq("save", id, t, <<>>, "no")
                   /\ UNCHANGED <<files, now, saved>>
              ELSE /\ IF generate
                      THEN \E reply \in TitleReplies :
                             /\ files' = [files EXCEPT ![chat_id] = JsonDumps(Written(
                                  IF reply.kind = "raise" THEN <<>>
                                  ELSE generate_chat_title(first_message, model, reply)))]
                             /\ sreq' = SReq("save", id, t, existing.title, reply.kind)
                      ELSE /\ files' = [files EXCEPT ![chat_id] = JsonDumps(Written(title1))]
                           /\ sreq' = SReq("save", id, t, existing.title, "no")
                   /\ saved' = [saved EXCEPT ![chat_id] = Saved(TRUE, m, messages)]
                   /\ sresp' = SResp(200, "ok", Absent, <<>>)
                   /\ UNCHANGED now

\* The ids a client asks load_chat for.
LoadIds == {<<"!">>, <<"a">>, <<"b", " ">>}

\* load_chat, lines 209-221
LoadChat ==
  \E id \in LoadIds :
    LET safe_id == sanitize_chat_id(id)
    IN  /\ sreq' = SReq("load", id, <<>>, <<>>, "no")
        /\ sresp' =
             IF safe_id = <<>> THEN SResp(400, "error", Absent, <<>>)
             ELSE IF safe_id \notin FileNames \/ files[safe_id].kind = "absent"
                  THEN SResp(404, "error", Absent, <<>>)
             ELSE IF files[safe_id].kind # "payload" THEN Unhandled
             ELSE SResp(200, "ok", JsonLoads(files[safe_id]), <<>>)
        /\ UNCHANGED <<files, now, saved>>

\* The orders in which CHATS_DIR.glob("*.json") can give the files.
GlobOrders ==
  LET present == {n \in FileNames : files[n].kind # "absent"}
  IN  {o \in UNION {[1..k -> present] : k \in {Cardinality(present)}} :
         \A i, j \in DOMAIN o : i # j => o[i] # o[j]}

\* The loop body of list_saved_chats for one file: its entry, or nothing
\* when parsing fails or the id is empty.
ChatEntry(file) ==
  IF file.kind # "payload" THEN <<>>
  ELSE LET payload == JsonLoads(file)
           chat_id == sanitize_chat_id(Strip(payload.id))
       IN  IF chat_id = <<>> THEN <<>>
           ELSE << [id |-> chat_id, title |-> payload.title,
                    model |-> payload.model, updatedAt |-> payload.updatedAt] >>

RECURSIVE Collect(_)
Collect(order) ==
  IF order = <<>> THEN <<>> ELSE ChatEntry(files[Head(order)]) \o Collect(Tail(order))

\* list_saved_chats() for the files in the order glob gives them
list_saved_chats(order) == SortDesc(Collect(order))

\* list_chats, lines 224-230
ListChats ==
  \E order \in GlobOrders :
    /\ sreq' = SReq("list", <<>>, <<>>, <<>>, "no")
    /\ sresp' = SResp(200, "ok", Absent, list_saved_chats(order))
    /\ UNCHANGED <<files, now, saved>>

NextStore ==
  \/ Tick /\ UNCHANGED <<sanVars, statVars>>
  \/ ExternalEdit /\ UNCHANGED <<sanVars, statVars>>
  \/ SaveChat /\ UNCHANGED <<sanVars, statVars>>
  \/ LoadChat /\ UNCHANGED <<sanVars, statVars>>
  \/ ListChats /\ UNCHANGED <<sanVars, statVars>>

SpecStore == InitStore /\ [][NextStore]_vars

(***************************************************************************)
(* The claims about the chats directory.                                   *)
(***************************************************************************)
\* The file the last request names, as json.loads reads it.
NamedFile == JsonLoads(files[sanitize_chat_id(Strip(sreq.id))])

\* C4: no request ends with an exception that leaves its handler: every
\* answer that is not a success is the {ok: false, error} body.
C4_NoExceptionLeavesHandler == sresp.body \in {"none", "ok", "error"}

\* The last request is a load_chat that found a transcript last written by
\* a save_chat.
LoadedSaved ==
  /\ sreq.op = "load"
  /\ sresp.code = 200
  /\ saved[sanitize_chat_id(sreq.id)].known

\* C5 as stated: load_chat gives back the sanitized id and exactly the model
\* and the messages of the most recent save_chat of that file.
C5_LoadGivesLastSaveExactly ==
  LoadedSaved =>
    /\ sresp.payload.id = sanitize_chat_id(sreq.id)
    /\ sresp.payload.model = saved[sanitize_chat_id(sreq.id)].model
    /\ sresp.payload.messages = saved[sanitize_chat_id(sreq.id)].messages

\* C5: load_chat gives back the sanitized id, the messages of the most
\* recent save_chat of that file, and its model without the whitespace
\* around it.
C5_LoadGivesLastSave ==
  LoadedSaved =>
    /\ sresp.payload.id = sanitize_chat_id(sreq.id)
    /\ sresp.payload.model = Strip(saved[sanitize_chat_id(sreq.id)].model)
    /\ sresp.payload.messages = saved[sanitize_chat_id(sreq.id)].messages

\* A transcript loaded after a second save: the title is the one the first
\* save left, the model and the messages are those of the second.
C5_Witness ==
  /\ LoadedSaved
  /\ sresp.payload.title # <<>>
  /\ sresp.payload.model = <<>>
  /\ sresp.payload.messages = MsgList(<<>>)

\* The clock reading a timestamp was written at.
TimeOf(ts) == CHOOSE k \in 0..MaxTick : UtcNowZ(k) = ts

\* C7: list_chats gives no entry with an empty id, and when the timestamps
\* of its entries differ pairwise, a later one comes before an earlier one.
C7_ListedLatestFirst ==
  sreq.op = "list" =>
    LET chats == sresp.chats
    IN  /\ \A i \in DOMAIN chats : chats[i].id # <<>>
        /\ (\A i, j \in DOMAIN chats : i # j => chats[i].updatedAt # chats[j].updatedAt)
             => \A i, j \in DOMAIN chats :
                  i < j => TimeOf(chats[i].updatedAt) > TimeOf(chats[j].updatedAt)

\* The last request is a successful save_chat with no title.
SavedUntitled ==
  /\ sreq.op = "save"
  /\ sresp.code = 200
  /\ Strip(sreq.title) = <<>>

\* C8 as stated: a save_chat with no title over a transcript with a title
\* that is not empty writes that title and asks for no generated one; a
\* failed generation leaves the title empty.
C8_TitleRetainedAsStored ==
  SavedUntitled =>
    /\ sreq.existing # <<>> => (NamedFile.title = sreq.existing /\ sreq.gen = "no")
    /\ sreq.gen = "raise" => NamedFile.title = <<>>

\* C8: a save_chat with no title over a transcript whose title is not empty
\* once the whitespace around it is gone writes that title without the
\* whitespace and asks for no generated one; a failed generation leaves the
\* title empty, and the save succeeds.
C8_TitleRetained ==
  /\ SavedUntitled =>
       /\ Strip(sreq.existing) # <<>> =>
            (NamedFile.title = Strip(sreq.existing) /\ sreq.gen = "no")
       /\ sreq.gen = "raise" => NamedFile.title = <<>>
  /\ (sreq.op = "save" /\ sreq.gen = "raise") => sresp.code = 200

\* A save with no title over a transcript that has one.
C8_Witness ==
  /\ SavedUntitled
  /\ sreq.existing = <<"T">>
  /\ NamedFile.title = <<"T">>

(***************************************************************************)
(* Spec: the status record under concurrently handled requests.            *)
(*                                                                         *)
(* Each thread handles one request at a time.  A step is one statement of  *)
(* the handler as far as it touches shared state: the three writes of      *)
(* update_status are three steps, taking and releasing status_lock are     *)
(* steps, and a call of the external runtime (ollama list, ollama pull,    *)
(* chat) is a step that may never happen (the call hangs).                 *)
(***************************************************************************)
\* Two requests are in progress at a time: a writer of the status beside a
\* reader, or beside another writer.
Threads == {"t1", "t2"}
None == <<"#none">>

\* Model names and request fields, as the JSON body gives them.
ModelInputs == {<<>>, <<" ">>, <<"m">>, <<"n">>}
PromptInputs == {<<>>, <<"h", "i">>}

\* The status messages of the program.
MsgChecking == <<"Checking model...">>
MsgLoading  == <<"Loading model...">>
MsgPulling  == <<"Pulling model...">>
MsgSelected == <<"Model selected.">>
MsgReady    == <<"Model ready.">>
DefaultListMsg == <<"Failed to list models.">>
DefaultPullMsg == <<"Failed to pull model.">>

Status(state, message, model) == [state |-> state, message |-> message, model |-> model]

\* No status: the arguments of no call, the snapshot of no answer.
NoStatus == Status("none", <<>>, <<>>)

\* model_status as the module sets it at import
InitialStatus == Status("idle", <<>>, <<>>)

\* What subprocess.run can give back for "ollama list" and "ollama pull".
Header == << <<"N">>, <<"I">> >>
Row(m) == << m, <<"i">> >>
ListStdouts ==
  { <<>>,
    <<Header>>,
    <<Header, Row(<<"m">>)>>,
    <<Header, Row(<<"n">>), <<>>, Row(<<"m">>)>>,
    << <<>>, Header, Row(<<"n">>), <<>> >> }
Stderrs == {<<>>, <<"e", " ">>}
ListOutcomes ==
  {[returncode |-> 0, stdout |-> o, stderr |-> <<>>] : o \in ListStdouts}
    \cup {[returncode |-> 1, stdout |-> <<>>, stderr |-> e] : e \in Stderrs}
PullOutcomes ==
  {[returncode |-> 0, stderr |-> <<>>]}
    \cup {[returncode |-> 1, stderr |-> e] : e \in Stderrs}

\* stdout.strip().splitlines(): blank lines at either end are gone
RECURSIVE LStripLines(_)
LStripLines(ls) == IF ls # <<>> /\ Head(ls) = <<>> THEN LStripLines(Tail(ls)) ELSE ls
RECURSIVE RStripLines(_)
RStripLines(ls) ==
  IF ls # <<>> /\ ls[Len(ls)] = <<>> THEN RStripLines(SubSeq(ls, 1, Len(ls) - 1)) ELSE ls

\* The models list_models returns for a stdout (a sequence of lines, each
\* the sequence of its whitespace-separated tokens).
list_models_parse(stdout) ==
  LET lines == RStripLines(LStripLines(stdout))
  IN  IF Len(lines) <= 1 THEN {}
      ELSE {lines[i][1] : i \in {j \in 2..Len(lines) : lines[j] # <<>>}}

\* "x or default" on strings
OrElse(x, default) == IF x # <<>> THEN x ELSE default

\* ensure_model_pulled taking every model for missing
ModelPresentNever(model, models) == FALSE

\* "model in models" of ensure_model_pulled
ModelPresent(model, models) == model \in models

\* A response: the HTTP code; the body ("ok" is {ok: true, ...}, "error" is
\* {ok: false, error}, "unhandled" is what Flask answers when an exception
\* leaves the handler: a 500 page that is no JSON envelope); the handler; the
\* error text; the model and the status snapshot where the body carries one.
Resp(code, body, kind, error, model, status) ==
  [code |-> code, body |-> body, kind |-> kind, error |-> error,
   model |-> model, status |-> status]
NoResp == Resp(0, "none", "none", <<>>, <<>>, NoStatus)
NoReq == [kind |-> "none", model |-> <<>>]

InitStat ==
  /\ pc = [t \in Threads |-> "idle"]
  /\ ret = [t \in Threads |-> "idle"]
  /\ arg = [t \in Threads |-> NoStatus]
  /\ req = [t \in Threads |-> NoReq]
  /\ found = [t \in Threads |-> "unknown"]
  /\ pulls = [t \in Threads |-> 0]
  /\ exc = [t \in Threads |-> None]
  /\ resp = [t \in Threads |-> NoResp]
  /\ lock = Free
  /\ model_status = InitialStatus
  /\ current_model = <<>>
  /\ committed = InitialStatus
  /\ nreq = 0

Init == InitStat /\ SanAtRest /\ StoreAtRest

\* A with block that does not wait for the lock
CanAcquireAlways(t) == TRUE

\* "with status_lock:" may be entered
CanAcquire(t) == lock = Free

\* The request of thread t ends with response r.
Finish(t, r) ==
  /\ pc' = [pc EXCEPT ![t] = "idle"]
  /\ resp' = [resp EXCEPT ![t] = r]
  /\ req' = [req EXCEPT ![t] = NoReq]
  /\ found' = [found EXCEPT ![t] = "unknown"]
  /\ pulls' = [pulls EXCEPT ![t] = 0]
  /\ exc' = [exc EXCEPT ![t] = None]

\* Thread t calls update_status(st...) and goes on at `after`.
CallUpdate(t, st, after) ==
  /\ arg' = [arg EXCEPT ![t] = st]
  /\ ret' = [ret EXCEPT ![t] = after]
  /\ pc' = [pc EXCEPT ![t] = "us_acq"]

\* A thread takes a request.
Begin(t, kind, model) ==
  /\ pc[t] = "idle"
  /\ nreq < MaxReq
  /\ nreq' = nreq + 1
  /\ req' = [req EXCEPT ![t] = [kind |-> kind, model |-> model]]
  /\ resp' = [resp EXCEPT ![t] = NoResp]

\* A request refused with 400 before it does anything.
Refuse(t, kind) ==
  /\ pc[t] = "idle"
  /\ nreq < MaxReq
  /\ nreq' = nreq + 1
  /\ resp' = [resp EXCEPT ![t] = Resp(400, "error", kind, <<>>, <<>>, NoStatus)]
  /\ UNCHANGED <<pc, ret, arg, req, found, pulls, exc, lock, model_status,
                 current_model, committed>>

---------------------------------------------------------------------------
\* update_status, lines 24-28

UsAcquire(t) ==
  /\ pc[t] = "us_acq"
  /\ CanAcquire(t)
  /\ lock' = t
  /\ pc' = [pc EXCEPT ![t] = "us_state"]
  /\ UNCHANGED <<ret, arg, req, found, pulls, exc, resp, model_status,
                 current_model, committed, nreq>>

UsWriteState(t) ==
  /\ pc[t] = "us_state"
  /\ model_status' = [model_status EXCEPT !.state = arg[t].state]
  /\ pc' = [pc EXCEPT ![t] = "us_message"]
  /\ UNCHANGED <<ret, arg, req, found, pulls, exc, resp, lock, current_model,
                 committed, nreq>>

UsWriteMessage(t) ==
  /\ pc[t] = "us_message"
  /\ model_status' = [model_status EXCEPT !.message = arg[t].message]
  /\ pc' = [pc EXCEPT ![t] = "us_model"]
  /\ UNCHANGED <<ret, arg, req, found, pulls, exc, resp, lock, current_model,
                 committed, nreq>>

UsWriteModel(t) ==
  /\ pc[t] = "us_model"
  /\ model_status' = [model_status EXCEPT !.model = arg[t].model]
  /\ pc' = [pc EXCEPT ![t] = "us_release"]
  /\ UNCHANGED <<ret, arg, req, found, pulls, exc, resp, lock, current_model,
                 committed, nreq>>

\* update_status called with the lock taken by its caller and kept until the
\* caller's next call of the runtime is over
UsReleaseLate(t) ==
  /\ pc[t] = "us_release"
  /\ lock' = IF ret[t] \in {"ens_list", "ens_pull", "cp_chat"} THEN lock ELSE Free
  /\ committed' = arg[t]
  /\ pc' = [pc EXCEPT ![t] = ret[t]]
  /\ arg' = [arg EXCEPT ![t] = NoStatus]
  /\ ret' = [ret EXCEPT ![t] = "idle"]
  /\ UNCHANGED <<req, found, pulls, exc, resp, model_status, current_model, nreq>>

\* Leaving the with block; the call returns to its caller.
UsRelease(t) ==
  /\ pc[t] = "us_release"
  /\ lock' = Free
  /\ committed' = arg[t]
  /\ pc' = [pc EXCEPT ![t] = ret[t]]
  /\ arg' = [arg EXCEPT ![t] = NoStatus]
  /\ ret' = [ret EXCEPT ![t] = "idle"]
  /\ UNCHANGED <<req, found, pulls, exc, resp, model_status, current_model, nreq>>

---------------------------------------------------------------------------
\* set_model, lines 145-155

SetModelStart(t) ==
  \E m \in ModelInputs :
    LET model == Strip(m)
    IN  IF model = <<>>
        THEN Refuse(t, "set_model")
        ELSE /\ Begin(t, "set_model", model)
             /\ pc' = [pc EXCEPT ![t] = "sm_assign"]
             /\ UNCHANGED <<ret, arg, found, pulls, exc, lock, model_status,
                            current_model, committed>>

\* current_model = model, then the call of update_status
SetModelAssign(t) ==
  /\ pc[t] = "sm_assign"
  /\ current_model' = req[t].model
  /\ CallUpdate(t, Status("selected", MsgSelected, req[t].model), "sm_return")
  /\ UNCHANGED <<req, found, pulls, exc, resp, lock, model_status, committed, nreq>>

SetModelReturn(t) ==
  /\ pc[t] = "sm_return"
  /\ Finish(t, Resp(200, "ok", "set_model", <<>>, req[t].model, NoStatus))
  /\ UNCHANGED <<ret, arg, lock, model_status, current_model, committed, nreq>>

---------------------------------------------------------------------------
\* get_model_status, lines 167-170

GetStatusStart(t) ==
  /\ Begin(t, "get_status", <<>>)
  /\ pc' = [pc EXCEPT ![t] = "gs_acq"]
  /\ UNCHANGED <<ret, arg, found, pulls, exc, lock, model_status, current_model,
                 committed>>

GetStatusAcquire(t) ==
  /\ pc[t] = "gs_acq"
  /\ CanAcquire(t)
  /\ lock' = t
  /\ pc' = [pc EXCEPT ![t] = "gs_read"]
  /\ UNCHANGED <<ret, arg, req, found, pulls, exc, resp, model_status,
                 current_model, committed, nreq>>

\* jsonify({"ok": True, **model_status}) inside the with block
GetStatusRead(t) ==
  /\ pc[t] = "gs_read"
  /\ resp' = [resp EXCEPT ![t] = Resp(200, "ok", "get_status", <<>>, <<>>, model_status)]
  /\ pc' = [pc EXCEPT ![t] = "gs_release"]
  /\ UNCHANGED <<ret, arg, req, found, pulls, exc, lock, model_status,
                 current_model, committed, nreq>>

GetStatusRelease(t) ==
  /\ pc[t] = "gs_release"
  /\ lock' = Free
  /\ Finish(t, resp[t])
  /\ UNCHANGED <<ret, arg, model_status, current_model, committed, nreq>>

---------------------------------------------------------------------------
\* get_models, lines 158-164, with list_models, lines 108-122

GetModelsStart(t) ==
  /\ Begin(t, "get_models", <<>>)
  /\ pc' = [pc EXCEPT ![t] = "gm_list"]
  /\ UNCHANGED <<ret, arg, found, pulls, exc, lock, model_status, current_model,
                 committed>>

\* "ollama list" comes back
GetModelsList(t) ==
  /\ pc[t] = "gm_list"
  /\ \E o \in ListOutcomes :
       IF o.returncode # 0
       THEN Finish(t, Resp(500, "error", "get_models",
                           OrElse(OrElse(Strip(o.stderr), DefaultListMsg),
                                  <<"Failed to load models.">>),
                           <<>>, NoStatus))
       ELSE Finish(t, Resp(200, "ok", "get_models", <<>>, <<>>, NoStatus))
  /\ UNCHANGED <<ret, arg, lock, model_status, current_model, committed, nreq>>

---------------------------------------------------------------------------
\* chat_prompt, lines 233-268, with ensure_model_pulled, lines 125-137

\* Lines 236-243 and, for a valid request, the first statement of
\* ensure_model_pulled (line 126).
ChatStart(t) ==
  \E p \in PromptInputs, m \in ModelInputs :
    LET prompt == Strip(p)
        model == OrElse(Strip(m), current_model)
    IN  IF prompt = <<>> \/ model = <<>>
        THEN Refuse(t, "chat")
        ELSE /\ Begin(t, "chat", model)
             /\ CallUpdate(t, Status("checking", MsgChecking, model), "ens_list")
             /\ UNCHANGED <<found, pulls, exc, lock, model_status, current_model,
                            committed>>

\* Lines 127-132 once "ollama list" comes back: a failure is raised into the
\* except clause of chat_prompt (line 250).
EnsureList(t) ==
  /\ pc[t] = "ens_list"
  /\ \E o \in ListOutcomes :
       IF o.returncode # 0
       THEN LET msg == OrElse(Strip(o.stderr), DefaultListMsg)
            IN  /\ found' = [found EXCEPT ![t] = "failed"]
                /\ exc' = [exc EXCEPT ![t] = msg]
                /\ CallUpdate(t, Status("error", OrElse(msg, DefaultPullMsg),
                                         req[t].model), "cp_error")
       ELSE LET models == list_models_parse(o.stdout)
            IN  /\ found' = [found EXCEPT ![t] =
                               IF req[t].model \in models THEN "present" ELSE "absent"]
                /\ exc' = exc
                /\ IF ModelPresent(req[t].model, models)
                   THEN CallUpdate(t, Status("loading", MsgLoading, req[t].model),
                                   "cp_assign")
                   ELSE CallUpdate(t, Status("pulling", MsgPulling, req[t].model),
                                   "ens_pull")
  /\ UNCHANGED <<req, pulls, resp, lock, model_status, current_model, committed, nreq>>

\* Lines 133-137 once "ollama pull" comes back.
EnsurePull(t) ==
  /\ pc[t] = "ens_pull"
  /\ pulls' = [pulls EXCEPT ![t] = @ + 1]
  /\ \E o \in PullOutcomes :
       IF o.returncode # 0
       THEN LET msg == OrElse(Strip(o.stderr), DefaultPullMsg)
            IN  /\ exc' = [exc EXCEPT ![t] = msg]
                /\ CallUpdate(t, Status("error", OrElse(msg, DefaultPullMsg),
                                         req[t].model), "cp_error")
       ELSE /\ exc' = exc
            /\ CallUpdate(t, Status("loading", MsgLoading, req[t].model), "cp_assign")
  /\ UNCHANGED <<req, found, resp, lock, model_status, current_model, committed, nreq>>

\* Lines 247-248: current_model = model, then the call of update_status.
ChatAssign(t) ==
  /\ pc[t] = "cp_assign"
  /\ current_model' = req[t].model
  /\ CallUpdate(t, Status("ready", MsgReady, req[t].model), "cp_chat")
  /\ UNCHANGED <<req, found, pulls, exc, resp, lock, model_status, committed, nreq>>

\* Line 251: the answer of the except clause.
ChatError(t) ==
  /\ pc[t] = "cp_error"
  /\ Finish(t, Resp(500, "error", "chat", OrElse(exc[t], DefaultPullMsg),
                     req[t].model, NoStatus))
  /\ UNCHANGED <<ret, arg, lock, model_status, current_model, committed, nreq>>

\* What the chat call of line 253 can do: answer, or raise.
ChatOutcomes == {"answer", "raise"}

\* Lines 253-268 once the chat call comes back. The call is outside the try
\* block: an exception it raises leaves the handler.
ChatCall(t) ==
  /\ pc[t] = "cp_chat"
  /\ \E o \in ChatOutcomes :
       IF o = "raise"
       THEN Finish(t, Resp(500, "unhandled", "chat", <<"chat failed">>,
                           req[t].model, NoStatus))
       ELSE Finish(t, Resp(200, "ok", "chat", <<>>, req[t].model, NoStatus))
  /\ UNCHANGED <<ret, arg, lock, model_status, current_model, committed, nreq>>

---------------------------------------------------------------------------
\* The rest of the state, which the handlers of the status leave alone.
StatusOnly == UNCHANGED <<sanVars, storeVars>>

\* The steps of the program that do not wait for the runtime or a client.
Internal(t) ==
  \/ UsWriteState(t) /\ StatusOnly
  \/ UsWriteMessage(t) /\ StatusOnly
  \/ UsWriteModel(t) /\ StatusOnly
  \/ UsRelease(t) /\ StatusOnly
  \/ SetModelAssign(t) /\ StatusOnly
  \/ SetModelReturn(t) /\ StatusOnly
  \/ GetStatusRead(t) /\ StatusOnly
  \/ GetStatusRelease(t) /\ StatusOnly
  \/ ChatAssign(t) /\ StatusOnly
  \/ ChatError(t) /\ StatusOnly

\* Taking the lock.
Acquire(t) ==
  \/ UsAcquire(t) /\ StatusOnly
  \/ GetStatusAcquire(t) /\ StatusOnly

\* A client sends a request.
Arrive(t) ==
  \/ SetModelStart(t) /\ StatusOnly
  \/ GetStatusStart(t) /\ StatusOnly
  \/ GetModelsStart(t) /\ StatusOnly
  \/ ChatStart(t) /\ StatusOnly

\* The runtime comes back from a call.
External(t) ==
  \/ GetModelsList(t) /\ StatusOnly
  \/ EnsureList(t) /\ StatusOnly
  \/ EnsurePull(t) /\ StatusOnly
  \/ ChatCall(t) /\ StatusOnly

Next == \E t \in Threads : Internal(t) \/ Acquire(t) \/ Arrive(t) \/ External(t)

Spec == Init /\ [][Next]_vars

\* The threads are scheduled fairly and a free lock is eventually given to a
\* thread that keeps asking for it; nothing makes the runtime come back
\* from a call, or a client send a request.
Fairness ==
  \A t \in Threads :
    /\ WF_vars(Internal(t))
    /\ SF_vars(Acquire(t))

FairSpec == Init /\ [][Next]_vars /\ Fairness

(***************************************************************************)
(* The claims about the status.                                            *)
(***************************************************************************)
ModelNames == {<<"m">>, <<"n">>}
ErrorTexts == {DefaultListMsg, DefaultPullMsg, <<"e">>}

\* Every (state, message, model) some call of update_status passes, and the
\* record the module starts with.
StatusCalls ==
  {InitialStatus}
    \cup {Status("checking", MsgChecking, m) : m \in ModelNames}
    \cup {Status("loading", MsgLoading, m) : m \in ModelNames}
    \cup {Status("pulling", MsgPulling, m) : m \in ModelNames}
    \cup {Status("selected", MsgSelected, m) : m \in ModelNames}
    \cup {Status("ready", MsgReady, m) : m \in ModelNames}
    \cup {Status("error", e, m) : e \in ErrorTexts, m \in ModelNames}

\* A chat_prompt request of thread t got past validation and failed.
ChatFailed(t) ==
  /\ pc[t] = "idle"
  /\ resp[t].kind = "chat"
  /\ resp[t].body \in {"error", "unhandled"}
  /\ resp[t].code # 400

\* C1: when a chat_prompt request that passed validation has failed (and no
\* other request has run), the status is "error" with the failure message
\* and the request's model, and the answer is a 500.
C1_FailureRecordsError ==
  \A t \in Threads :
    (nreq = 1 /\ ChatFailed(t)) =>
      /\ resp[t].code = 500
      /\ model_status = Status("error", resp[t].error, resp[t].model)

\* C2: the snapshot get_model_status reads is the record one call of
\* update_status wrote (the last one completed, or the initial record),
\* and so is every snapshot answered.
C2_SnapshotIsOneWrite ==
  \A t \in Threads :
    /\ pc[t] = "gs_release" => resp[t].status = committed
    /\ (resp[t].kind = "get_status" /\ resp[t].body = "ok") =>
         resp[t].status \in StatusCalls

\* A snapshot taken while another request is between two status updates.
C2_Witness ==
  \E t, u \in Threads :
    /\ pc[t] = "gs_release"
    /\ resp[t].status.state = "pulling"
    /\ pc[u] = "ens_pull"

\* ensure_model_pulled of thread t is over: it returned or raised.
EnsureOver(t) ==
  \/ pc[t] \in {"cp_assign", "cp_chat", "cp_error"}
  \/ pc[t] \in {"us_acq", "us_state", "us_message", "us_model", "us_release"}
       /\ ret[t] \in {"cp_assign", "cp_chat", "cp_error"}

\* C3: in one call of ensure_model_pulled, "ollama pull" runs only after
\* list_models has answered without the model, never when the model is
\* listed, at most once, and exactly once by the time the call is over when
\* the model was not listed.
C3_PullOnlyWhenAbsentOnce ==
  \A t \in Threads :
    /\ pulls[t] <= 1
    /\ pulls[t] = 1 => found[t] = "absent"
    /\ found[t] \in {"present", "failed", "unknown"} => pulls[t] = 0
    /\ (found[t] = "absent" /\ EnsureOver(t)) => pulls[t] = 1

\* A call for a missing model is over after its one pull, and a call for a
\* listed model is over without one.
C3_Witness ==
  \E t, u \in Threads :
    /\ pc[t] = "cp_chat" /\ found[t] = "absent" /\ pulls[t] = 1
    /\ pc[u] = "cp_chat" /\ found[u] = "present" /\ pulls[u] = 0

\* C10: with no request in progress and the status "selected" or "ready",
\* the model of the status is current_model.
C10_QuiescentStatusIsCurrentModel ==
  ((\A t \in Threads : pc[t] = "idle") /\ model_status.state \in {"selected", "ready"})
    => model_status.model = current_model

\* Thread t waits for the runtime: "ollama list", "ollama pull" or chat.
InExternalCall(t) == pc[t] \in {"gm_list", "ens_list", "ens_pull", "cp_chat"}

\* C9: a request that waits for the runtime never holds status_lock, and
\* every get_model_status and set_model request in progress is eventually
\* answered, whatever the other requests wait for.
C9_LockFreeAcrossExternalCalls ==
  /\ [](\A t \in Threads : InExternalCall(t) => lock # t)
  /\ \A t \in Threads :
       (req[t].kind \in {"get_status", "set_model"}) ~> (pc[t] = "idle")

\* A status request is answered while the other request waits for a pull.
C9_Witness ==
  \E t, u \in Threads :
    /\ pc[u] = "ens_pull"
    /\ pc[t] = "idle" /\ resp[t].kind = "get_status"
    /\ resp[t].status.state = "pulling"

====
